---------------------------- MODULE Spec2Model ----------------------------
(***************************************************************************)
(* State-machine model of the free-fall gravimeter estimator of Agdas:     *)
(* class Fall (calibration setters, setFringe, LST with its four calls of  *)
(* computeLST, and the derived-quantity operations) and estim.printResult, *)
(* from src/classes.py.                                                    *)
(*                                                                         *)
(* What is modelled exactly: which attributes every method reads and       *)
(* writes and in which order, Python's attribute lookup (a missing         *)
(* attribute raises AttributeError, the statements before it have taken    *)
(* effect), Python's slice semantics, the integer arithmetic of the        *)
(* variance factor and of the ssres divisor, the shapes numpy checks       *)
(* (an empty residual array cannot be broadcast), the exact rational       *)
(* arithmetic of the derived quantities, and the decimal scaling and       *)
(* rounding of printResult.                                                *)
(*                                                                         *)
(* What is abstracted: the floating-point content of the least-squares     *)
(* solutions.  The numbers numpy.linalg.lstsq returns are inputs of the    *)
(* LST step (the record sol), as are the numerical rank of the design      *)
(* matrices and whether LAPACK meets an exactly zero pivot; IEEE rounding  *)
(* error is not modelled (reals are carried as exact rationals, trig       *)
(* arguments as multiples of pi/2).                                        *)
(***************************************************************************)
EXTENDS Integers, Sequences, FiniteSets, TLC

VARIABLES
    fall,       \* instance id -> the attributes of that Fall object
    hist,       \* instance id -> history of the calls made on it
    lst,        \* the local frame of the most recent call of Fall.LST
    pc,         \* instance id -> position of its worker in the drop pipeline
    estimFile,  \* the lines estim has written to its csv file
    mat,        \* a fringe index's inputs and the matrix rows built from them
    flow        \* the data flow of the statements of Fall.LST, call by call

vars == <<fall, hist, lst, pc, estimFile, mat, flow>>

(***************************************************************************)
(* Bounds of the model.                                                    *)
(***************************************************************************)
MaxFringe == 12
MaxWorkers == 2
MaxTime == 2
MaxCalls == 2
MaxIndex == 2
MaxAgain == 2

(***************************************************************************)
(* Exact rationals <<n, d>> in lowest terms with d > 0.  NonFinite, the    *)
(* pair with denominator 0, stands for an IEEE inf or nan: numpy divides a *)
(* float64 by zero with a warning, not an exception.                       *)
(***************************************************************************)
NonFinite == <<0, 0>>

Abs(a) == IF a < 0 THEN -a ELSE a

RECURSIVE Gcd(_, _)
Gcd(a, b) == IF b = 0 THEN a ELSE Gcd(b, a % b)

Rat(n, d) ==
    IF d = 0 THEN NonFinite
    ELSE LET g == Gcd(Abs(n), Abs(d))
             s == IF d < 0 THEN -1 ELSE 1
         IN  <<(s * n) \div g, (s * d) \div g>>

Int2Rat(a) == <<a, 1>>

Finite(a) == a[2] # 0

\* Over the least common denominator, which keeps the products small.
RatAdd(a, b) ==
    IF ~Finite(a) \/ ~Finite(b) THEN NonFinite
    ELSE LET g == Gcd(a[2], b[2])
         IN  Rat(a[1] * (b[2] \div g) + b[1] * (a[2] \div g),
                 (a[2] \div g) * b[2])

RatNeg(a) == IF ~Finite(a) THEN NonFinite ELSE <<-a[1], a[2]>>

RatSub(a, b) == RatAdd(a, RatNeg(b))

RatMul(a, b) ==
    IF ~Finite(a) \/ ~Finite(b) THEN NonFinite
    ELSE Rat(a[1] * b[1], a[2] * b[2])

RatDiv(a, b) ==
    IF ~Finite(a) \/ ~Finite(b) THEN NonFinite
    ELSE Rat(a[1] * b[2], a[2] * b[1])

(***************************************************************************)
(* Python's a[lo:hi] on a sequence of n elements: a negative bound counts  *)
(* from the end, both bounds are clipped to 0..n, and an inverted range is *)
(* empty.  PySlice is the set of 0-based indices selected.                 *)
(***************************************************************************)
PyClip(b, n) ==
    LET v == IF b < 0 THEN b + n ELSE b
    IN  IF v < 0 THEN 0 ELSE IF v > n THEN n ELSE v

PySlice(lo, hi, n) == {k \in 0..(n - 1) : PyClip(lo, n) <= k /\ k < PyClip(hi, n)}

PySliceLen(lo, hi, n) == Cardinality(PySlice(lo, hi, n))

(***************************************************************************)
(* A Fall object.  has is the set of instance attributes that exist; a     *)
(* read of an attribute outside has raises AttributeError.  The fields of  *)
(* attributes that do not exist hold a fixed filler, so that two objects   *)
(* with the same attributes are equal.  gTop and gTopCor are methods of    *)
(* the class until the methods themselves assign instance attributes of    *)
(* the same names.  Of a variance factor and the standard deviations made  *)
(* from it the model keeps the denominator (den); of x_grad the element    *)
(* the code reads back; the solution and residual vectors whose content no *)
(* method reads (xef, res_grad1, xgrad4, Resgrad4, resgrad4) exist or not. *)
(***************************************************************************)
CalibrationAttrs ==
    {"Lambda", "scaleFactor", "multiplex", "gradient", "fmod", "Lpar",
     "rubiFreq", "frmin", "frmax", "frmaxss", "frminss"}

FitOutputs ==
    {"m02", "std", "stdX", "x_grad", "m02_grad", "std_grad", "xef",
     "res_grad1", "ssres", "xgrad4", "m0grad4", "Resgrad4", "resgrad4",
     "g0_Gr", "z0", "v0", "g0"}

DerivedAttrs == {"h", "Grad", "htop", "effectiveZ", "gTop", "gTopCor"}

\* src/classes.py:11-14
Fresh ==
    [has |-> {"ksol", "c", "keys"},
     ksol |-> 1,
     c |-> [m |-> 299792458, e |-> 9],
     keys |-> <<"z0", "v0", "g0", "a1", "a2", "a3", "a4", "a5", "a6">>,
     fringe |-> <<>>,
     Lambda |-> 0, scaleFactor |-> 0, multiplex |-> 0, fmod |-> 0,
     Lpar |-> 0, rubiFreq |-> 0,
     gradient |-> Int2Rat(0),
     frmin |-> 0, frmax |-> 0, frmaxss |-> 0, frminss |-> 0,
     tt |-> [len |-> 0, filled |-> FALSE],
     m02 |-> [den |-> 0], std |-> [den |-> 0], stdX |-> [den |-> 0],
     x_grad |-> [g0 |-> 0], m02_grad |-> [den |-> 0],
     std_grad |-> [den |-> 0], m0grad4 |-> [den |-> 0],
     ssres |-> [count |-> 0, div |-> 0],
     g0_Gr |-> 0, z0 |-> 0, v0 |-> 0, g0 |-> 0,
     h |-> Int2Rat(0), Grad |-> Int2Rat(0), htop |-> Int2Rat(0),
     effectiveZ |-> Int2Rat(0), gTop |-> Int2Rat(0), gTopCor |-> Int2Rat(0)]

Has(f, a) == a \in f.has

(***************************************************************************)
(* The setters.  Each is one assignment (two for the ranges); float() of a *)
(* number keeps its value.  The arguments are numbers: the callers pass    *)
(* what they parsed from the project file.                                 *)
(***************************************************************************)
setFringe(f, times) ==
    [f EXCEPT !.has = @ \cup {"fringe"}, !.fringe = times]

setLambda(f, Lambda) ==
    [f EXCEPT !.has = @ \cup {"Lambda"}, !.Lambda = Lambda]

setScaleFactor(f, scaleFactor) ==
    [f EXCEPT !.has = @ \cup {"scaleFactor"}, !.scaleFactor = scaleFactor]

setMultiplex(f, multiplex) ==
    [f EXCEPT !.has = @ \cup {"multiplex"}, !.multiplex = multiplex]

\* self.gradient = -100*float(grad)*1e-8
setGradient(f, grad) ==
    [f EXCEPT !.has = @ \cup {"gradient"},
              !.gradient = Rat(-100 * grad, 100000000)]

setModulFreq(f, fmod) ==
    [f EXCEPT !.has = @ \cup {"fmod"}, !.fmod = fmod]

setLpar(f, Lpar) ==
    [f EXCEPT !.has = @ \cup {"Lpar"}, !.Lpar = Lpar]

setRubiFreq(f, freq) ==
    [f EXCEPT !.has = @ \cup {"rubiFreq"}, !.rubiFreq = freq]

\* The bounds come 1-based; frmin is stored 0-based.  Nothing is validated.
setFrRange(f, frmin, frmax) ==
    [f EXCEPT !.has = @ \cup {"frmin", "frmax"},
              !.frmin = frmin - 1, !.frmax = frmax]

\* The parameters come in the order (frmaxss, frminss).
setFRssRange(f, frmaxss, frminss) ==
    [f EXCEPT !.has = @ \cup {"frmaxss", "frminss"},
              !.frmaxss = frmaxss, !.frminss = frminss - 1]

(***************************************************************************)
(* computeLST(A, z) for a matrix A of rows x k.  finite says that A holds  *)
(* no inf or nan; fullRank and zeroPivot are the two facts about the data  *)
(* that floating point decides:                                            *)
(*   line 55  lstsq raises LinAlgError (the SVD does not converge) on a    *)
(*            matrix that holds nan; otherwise it returns the solution and *)
(*            the residual sum x[1], which is an EMPTY array when          *)
(*            rows <= k or rank(A) < k;                                    *)
(*   line 56  (A'A).I raises LinAlgError when LAPACK meets an exactly zero *)
(*            pivot, which it always does for the zero matrix (rows = 0)   *)
(*            and may do when A'A is singular (rows < k or rank(A) < k);   *)
(*   line 57  m02 = x[1] / (frmax - frmin - k - 1): an array divided by an *)
(*            integer, so a zero denominator gives inf or nan, no error;   *)
(*   line 58  multiply(diag(covar), m02) raises ValueError when m02 is     *)
(*            empty: shapes (k,) and (0,) do not broadcast.                *)
(* The denominator is taken from the attributes frmax and frmin, not from  *)
(* the shape of A.                                                         *)
(***************************************************************************)
computeLST(f, rows, k, finite, fullRank, zeroPivot) ==
    LET singular == rows < k \/ ~fullRank
        den == f.frmax - f.frmin - k - 1
        exc == IF ~finite THEN "LinAlgError"
               ELSE IF rows = 0 \/ (singular /\ zeroPivot) THEN "LinAlgError"
               ELSE IF rows <= k \/ ~fullRank THEN "ValueError"
               ELSE "none"
    IN  [exc |-> exc, rows |-> rows, k |-> k, den |-> den]

\* What m02 = x[1]/den and stdX = sqrt(diag(covar)*m02) are for a returned
\* solve: finite numbers, inf or nan (den = 0), or a negative variance
\* factor whose square roots are nan (den < 0).
VarianceKind(den) ==
    IF den > 0 THEN "finite" ELSE IF den = 0 THEN "inf_or_nan" ELSE "negative"

(***************************************************************************)
(* The local frame of a call of LST: what the call computed on its way.    *)
(***************************************************************************)
NoFrame ==
    [inst |-> 0, nfringe |-> 0, rows |-> 0, solves |-> <<>>,
     ranges |-> FALSE, frmin |-> 0, frmax |-> 0,
     ssRanges |-> FALSE, frminss |-> 0, frmaxss |-> 0,
     ssCount |-> 0, ssDiv |-> 0, exc |-> "none"]

Outcome(f, frame, exc) == [f |-> f, frame |-> [frame EXCEPT !.exc = exc], exc |-> exc]

(***************************************************************************)
(* Fall.LST on instance inst.  sol holds the elements of the lstsq solutions that the code reads back      *)
(* (x[0][0], x[0][1], x[0][2], x_grad[0][2]); firstBad is the first of the *)
(* four design matrices that is numerically rank deficient (0: none; the   *)
(* reduced matrix A2 is made of columns of A, so it cannot be the first).  *)
(* An exception leaves every assignment made before it in place.           *)
(***************************************************************************)
LST(f, inst, sol, firstBad, zeroPivot) ==
    LET nfringe == Len(f.fringe)
        fr0 == [NoFrame EXCEPT !.inst = inst, !.nfringe = nfringe]
        \* line 78: self.tt = np.zeros(nfringe)
        f1 == [f EXCEPT !.has = @ \cup {"tt"},
                        !.tt = [len |-> nfringe, filled |-> FALSE]]
        \* lines 85-127: the first pass of the loop reads these, in this order
        needA == {"Lambda", "multiplex", "scaleFactor", "rubiFreq"}
        needB == {"fmod", "gradient", "Lpar"}
        f2 == [f1 EXCEPT !.tt.filled = TRUE]
        \* line 111: z1[i]/self.Lpar is 0/0 or x/0 for Lpar = 0, and the
        \* sine and cosine of it are nan in every row of A1 and A_grad1
        finiteA == f.Lpar # 0
        \* line 169: the modulation column divides by self.gradient*2; for a
        \* zero gradient A_grad is A, x_grad is x and every entry is 0/0
        finiteA4 == finiteA /\ f.gradient[1] # 0
        \* lines 130-133
        rows == PySliceLen(f.frmin, f.frmax, nfringe)
        fr1 == [fr0 EXCEPT !.rows = rows, !.ranges = TRUE,
                           !.frmin = f.frmin, !.frmax = f.frmax]
        \* line 138
        s1 == computeLST(f2, rows, 9, finiteA, firstBad # 1, zeroPivot)
        fr2 == [fr1 EXCEPT !.solves = <<s1>>]
        f3 == [f2 EXCEPT !.has = @ \cup {"m02", "std", "stdX"},
                         !.m02 = [den |-> s1.den],
                         !.std = [den |-> s1.den],
                         !.stdX = [den |-> s1.den]]
        \* line 140
        s2 == computeLST(f3, rows, 9, finiteA, firstBad # 2, zeroPivot)
        fr3 == [fr2 EXCEPT !.solves = <<s1, s2>>]
        f4 == [f3 EXCEPT !.has = @ \cup {"x_grad", "m02_grad", "std_grad"},
                         !.x_grad = [g0 |-> sol.g0_Gr],
                         !.m02_grad = [den |-> s2.den],
                         !.std_grad = [den |-> s2.den]]
        \* line 142
        s3 == computeLST(f4, rows, 7, finiteA, firstBad # 3, zeroPivot)
        fr4 == [fr3 EXCEPT !.solves = <<s1, s2, s3>>]
        f5 == [f4 EXCEPT !.has = @ \cup {"xef"}]
        \* line 163
        f6 == [f5 EXCEPT !.has = @ \cup {"res_grad1"}]
        \* lines 165-166
        ssCount == PySliceLen(f.frminss, f.frmaxss, nfringe)
        ssDiv == f.frmaxss - f.frminss + 1
        fr5 == [fr4 EXCEPT !.ssCount = ssCount, !.ssDiv = ssDiv,
                           !.ssRanges = TRUE, !.frminss = f.frminss,
                           !.frmaxss = f.frmaxss]
        f7 == [f6 EXCEPT !.has = @ \cup {"ssres"},
                         !.ssres = [count |-> ssCount, div |-> ssDiv]]
        \* lines 169-177
        s4 == computeLST(f7, rows, 5, finiteA4, firstBad # 4, zeroPivot)
        fr6 == [fr5 EXCEPT !.solves = <<s1, s2, s3, s4>>]
        \* lines 177-192
        f8 == [f7 EXCEPT !.has = @ \cup {"xgrad4", "m0grad4", "Resgrad4",
                                         "resgrad4", "g0_Gr", "z0", "v0", "g0"},
                         !.m0grad4 = [den |-> s4.den],
                         !.g0_Gr = f4.x_grad.g0, !.z0 = sol.z0,
                         !.v0 = sol.v0, !.g0 = sol.g0]
    IN  IF ~Has(f, "fringe") THEN Outcome(f, fr0, "AttributeError")
        ELSE IF nfringe > 0 /\ ~(needA \subseteq f.has)
            THEN Outcome(f1, fr0, "AttributeError")
        ELSE IF nfringe > 0 /\ f.rubiFreq = 0
            THEN Outcome(f1, fr0, "ZeroDivisionError")
        ELSE IF nfringe > 0 /\ ~(needB \subseteq f.has)
            THEN Outcome(f1, fr0, "AttributeError")
        ELSE IF ~({"frmin", "frmax"} \subseteq f.has)
            THEN Outcome(f2, fr0, "AttributeError")
        ELSE IF s1.exc # "none" THEN Outcome(f2, fr2, s1.exc)
        ELSE IF s2.exc # "none" THEN Outcome(f3, fr3, s2.exc)
        ELSE IF s3.exc # "none" THEN Outcome(f4, fr4, s3.exc)
        ELSE IF ~({"frminss", "frmaxss"} \subseteq f.has)
            THEN Outcome(f6, fr4, "AttributeError")
        ELSE IF s4.exc # "none" THEN Outcome(f7, fr6, s4.exc)
        ELSE Outcome(f8, fr6, "none")

(***************************************************************************)
(* The derived-quantity methods.  Each returns the object after the call   *)
(* and the exception raised ("none": the call completed).  The fit outputs *)
(* are numpy float64, so a division by zero is non-finite, not an error.   *)
(***************************************************************************)
Result(f, exc) == [f |-> f, exc |-> exc]

\* self.h = -(self.g0_Gr - self.g0)/self.gradient
\* effectiveHeight without the leading minus sign.
effectiveHeightUnsigned(f) ==
    IF ~({"g0_Gr", "g0", "gradient"} \subseteq f.has)
    THEN Result(f, "AttributeError")
    ELSE Result([f EXCEPT !.has = @ \cup {"h"},
                          !.h = RatDiv(Int2Rat(f.g0_Gr - f.g0), f.gradient)],
                "none")

effectiveHeight(f) ==
    IF ~({"g0_Gr", "g0", "gradient"} \subseteq f.has)
    THEN Result(f, "AttributeError")
    ELSE Result([f EXCEPT !.has = @ \cup {"h"},
                          !.h = RatDiv(RatNeg(Int2Rat(f.g0_Gr - f.g0)),
                                       f.gradient)],
                "none")

\* self.Grad=self.v0**2/(2*self.g0_Gr) is assigned before self.h is read.
effectiveHeightTop(f) ==
    LET Grad == RatDiv(Int2Rat(f.v0 * f.v0), Int2Rat(2 * f.g0_Gr))
        f1 == [f EXCEPT !.has = @ \cup {"Grad"}, !.Grad = Grad]
    IN  IF ~({"v0", "g0_Gr"} \subseteq f.has) THEN Result(f, "AttributeError")
        ELSE IF ~Has(f, "h") THEN Result(f1, "AttributeError")
        ELSE Result([f1 EXCEPT !.has = @ \cup {"htop"},
                               !.htop = RatAdd(f.h, Grad)],
                    "none")

\* self.effectiveZ = self.h + self.z0
effectivePosition(f) ==
    IF ~({"h", "z0"} \subseteq f.has) THEN Result(f, "AttributeError")
    ELSE Result([f EXCEPT !.has = @ \cup {"effectiveZ"},
                          !.effectiveZ = RatAdd(f.h, Int2Rat(f.z0))],
                "none")

\* self.gTop = self.g0_Gr - self.gradient*self.Grad.  The assignment makes
\* gTop an instance attribute holding a number: a later f.gTop() calls that
\* number and raises TypeError.
gTop(f) ==
    IF Has(f, "gTop") THEN Result(f, "TypeError")
    ELSE IF ~({"g0_Gr", "gradient", "Grad"} \subseteq f.has)
    THEN Result(f, "AttributeError")
    ELSE Result([f EXCEPT !.has = @ \cup {"gTop"},
                          !.gTop = RatSub(Int2Rat(f.g0_Gr),
                                          RatMul(f.gradient, f.Grad))],
                "none")

\* A slip that would start the sum from the fit output instead of gTop.
gTopCorFromFit(f, tide, load, baro, polar) ==
    IF Has(f, "gTopCor") \/ ~Has(f, "g0_Gr") THEN Result(f, "TypeError")
    ELSE Result([f EXCEPT !.has = @ \cup {"gTopCor"},
                          !.gTopCor = Int2Rat(f.g0_Gr + 10 * tide + 10 * load
                                              + 10 * baro + 10 * polar)],
                "none")

\* self.gTopCor=self.gTop+10*float(tide)+10*float(load)+10*float(baro)
\*              +10*float(polar).  Before gTop() has run, self.gTop is the
\* bound method and the sum raises TypeError.
gTopCor(f, tide, load, baro, polar) ==
    IF Has(f, "gTopCor") \/ ~Has(f, "gTop") THEN Result(f, "TypeError")
    ELSE Result([f EXCEPT !.has = @ \cup {"gTopCor"},
                          !.gTopCor =
                              RatAdd(RatAdd(RatAdd(RatAdd(f.gTop,
                                  Int2Rat(10 * tide)), Int2Rat(10 * load)),
                                  Int2Rat(10 * baro)), Int2Rat(10 * polar))],
                "none")

(***************************************************************************)
(* The body of the loop of LST for one fringe index (lines 85-127), as a   *)
(* function of the quantities it computes first: t = self.tt[i], and the   *)
(* three trigonometric arguments in quarter turns,                         *)
(*   arg1 = 2*pi*fmod*tt[i]      = q1 * pi/2,                              *)
(*   arg2 = 2*pi*fmod*2*z1[i]/c  = q2 * pi/2,                              *)
(*   2*pi*z1[i]/Lpar             = qL * pi/2,                              *)
(* where sine and cosine are exact.  gradient is self.gradient.            *)
(***************************************************************************)
Sin4(q) == <<0, 1, 0, -1>>[(q % 4) + 1]
Cos4(q) == <<1, 0, -1, 0>>[(q % 4) + 1]

\* The ordering of the commented-out line 115.
LoopBodyNaive(t, q1, q2, qL, gradient) ==
    LET z_a1 == Int2Rat(Sin4(q1) * Cos4(q2))
        z_a2 == Int2Rat(Cos4(q1) * Cos4(q2))
        z_a3 == Int2Rat(Sin4(q1) * Sin4(q2))
        z_a4 == Int2Rat(Cos4(q1) * Sin4(q2))
        z_a5 == Int2Rat(Sin4(qL))
        z_a6 == Int2Rat(Cos4(qL))
        z_v0_grad == RatAdd(Int2Rat(t),
                            RatMul(RatDiv(gradient, Int2Rat(6)),
                                   Int2Rat(t * t * t)))
        z_g0_grad == RatAdd(Rat(t * t, 2),
                            RatMul(RatDiv(gradient, Int2Rat(24)),
                                   Int2Rat(t * t * t * t)))
    IN  [line |-> <<Int2Rat(1), Int2Rat(t), Rat(t * t, 2),
                    z_a1, z_a2, z_a3, z_a4, z_a5, z_a6>>,
         line_grad |-> <<Int2Rat(1), z_v0_grad, z_g0_grad,
                         z_a1, z_a2, z_a3, z_a4, z_a5, z_a6>>]

LoopBody(t, q1, q2, qL, gradient) ==
    LET z_a1 == Int2Rat(Sin4(q1) * Cos4(q2))
        z_a2 == Int2Rat(Cos4(q1) * Cos4(q2))
        z_a3 == Int2Rat(Sin4(q1) * Sin4(q2))
        z_a4 == Int2Rat(Cos4(q1) * Sin4(q2))
        z_a5 == Int2Rat(Sin4(qL))
        z_a6 == Int2Rat(Cos4(qL))
        z_v0_grad == RatAdd(Int2Rat(t),
                            RatMul(RatDiv(gradient, Int2Rat(6)),
                                   Int2Rat(t * t * t)))
        z_g0_grad == RatAdd(Rat(t * t, 2),
                            RatMul(RatDiv(gradient, Int2Rat(24)),
                                   Int2Rat(t * t * t * t)))
    IN  [line |-> <<Int2Rat(1), Int2Rat(t), Rat(t * t, 2),
                    z_a3, z_a1, z_a4, z_a2, z_a5, z_a6>>,
         line_grad |-> <<Int2Rat(1), z_v0_grad, z_g0_grad,
                         z_a3, z_a1, z_a4, z_a2, z_a5, z_a6>>]

(***************************************************************************)
(* estim.printResult.  A number is a decimal [m, e], meaning m * 10^e.     *)
(* round(x, d) keeps d decimal places (half to even on the decimal value;  *)
(* the inputs of the model are no ties).                                   *)
(***************************************************************************)
Dec(m, e) == [m |-> m, e |-> e]

RECURSIVE Pow10(_)
Pow10(n) == IF n = 0 THEN 1 ELSE 10 * Pow10(n - 1)

Scale1e6(x) == Dec(x.m, x.e - 6)

Round(x, d) ==
    IF x.e >= -d THEN x
    ELSE LET p == Pow10(-d - x.e)
             q == x.m \div p
             r == x.m % p
         IN  Dec(IF 2 * r > p \/ (2 * r = p /\ q % 2 = 1) THEN q + 1 ELSE q,
                 -d)

RECURSIVE Interleave(_, _)
Interleave(X, std) ==
    IF X = <<>> THEN <<>>
    ELSE <<Head(X), Head(std)>> \o Interleave(Tail(X), Tail(std))

\* A slip that would round the value of g0 (index 7) instead of its
\* standard deviation (index 8).
printResultG0(file, X, std, set, drop, m0) ==
    LET r0 == <<Dec(set, 0), Dec(drop, 0), m0[1]>> \o Interleave(X, std)
        r1 == [r0 EXCEPT ![4] = Round(Scale1e6(r0[4]), 4),
                         ![5] = Round(Scale1e6(r0[5]), 14),
                         ![6] = Round(Scale1e6(r0[6]), 4),
                         ![7] = Round(Scale1e6(r0[7]), 15),
                         ![8] = Round(r0[8], 3)]
    IN  [file EXCEPT !.rows = Append(@, r1)]

\* dropResult[3..6] and [8] of the code are the elements 4..7 and 9 here.
printResult(file, X, std, set, drop, m0) ==
    LET r0 == <<Dec(set, 0), Dec(drop, 0), m0[1]>> \o Interleave(X, std)
        r1 == [r0 EXCEPT ![4] = Round(Scale1e6(r0[4]), 4),
                         ![5] = Round(Scale1e6(r0[5]), 14),
                         ![6] = Round(Scale1e6(r0[6]), 4),
                         ![7] = Round(Scale1e6(r0[7]), 15),
                         ![9] = Round(r0[9], 3)]
    IN  [file EXCEPT !.rows = Append(@, r1)]

(***************************************************************************)
(* The statements of LST, in the order of the source, as data flow: each   *)
(* statement has its line, the names it binds or updates (w) and the names *)
(* it reads (r).  An attribute self.a is the name "a".  A statement that   *)
(* updates an array in place reads the array.  solve is 0, or the number   *)
(* of the call of computeLST the statement makes, with the names of the    *)
(* matrix (A) and of the observation vector (z) it passes.  clears: the    *)
(* vectors the statement allocates as zeros; fills: the vectors it assigns *)
(* for every index of range(nfringe).  The for statement of line 85 is one *)
(* statement, run once per index.                                          *)
(***************************************************************************)
Stmt(line, w, r) ==
    [line |-> line, kind |-> "assign", w |-> w, r |-> r, solve |-> 0,
     A |-> "", z |-> "", clears |-> {}, fills |-> {}]

SolveStmt(line, k, w, A, z) ==
    [Stmt(line, w, {A, z}) EXCEPT !.kind = "solve", !.solve = k, !.A = A,
                                  !.z = z]

\* Lines 74-133: the arrays, the loop that fills them, the slices.
Build ==
    <<Stmt(74, {"nfringe"}, {"fringe"}),
      [Stmt(77, {"z1"}, {"nfringe"}) EXCEPT !.clears = {"z1"}],
      [Stmt(78, {"tt"}, {"nfringe"}) EXCEPT !.clears = {"tt"}],
      Stmt(79, {"A_grad1"}, {"nfringe"}),
      Stmt(80, {"A1"}, {"nfringe"}),
      [Stmt(81, {"A4"}, {"nfringe"}) EXCEPT !.clears = {"A4[:,2]"}],
      [Stmt(85, {"z1", "tt", "A_grad1", "A4", "A1"},
            {"z1", "tt", "A_grad1", "A4", "A1", "Lambda", "multiplex",
             "scaleFactor", "fringe", "rubiFreq", "ksol", "c", "fmod",
             "gradient", "Lpar"}) EXCEPT !.kind = "loop"],
      Stmt(130, {"A_grad"}, {"A_grad1", "frmin", "frmax"}),
      Stmt(131, {"A"}, {"A1", "frmin", "frmax"}),
      Stmt(132, {"z"}, {"z1", "frmin", "frmax"}),
      Stmt(133, {"A2"}, {"A"})>>

\* Lines 138-192: the four solves and what is computed from them.
Fit ==
    <<SolveStmt(138, 1, {"x", "covar", "m02", "std", "stdX", "res"},
                "A", "z"),
      SolveStmt(140, 2, {"x_grad", "covar_grad", "m02_grad", "stdstd",
                         "std_grad", "res_grad"}, "A_grad", "z"),
      SolveStmt(142, 3, {"xef", "xefCovar", "xefM02", "xefStd", "stdXX",
                         "xefRes"}, "A2", "z"),
      Stmt(163, {"res_grad1"}, {"z1", "A_grad1", "x_grad"}),
      Stmt(165, {"ress"}, {"res_grad1", "frminss", "frmaxss"}),
      Stmt(166, {"ssres"}, {"ress", "frmaxss", "frminss"}),
      [Stmt(169, {"A4"}, {"A4", "x", "tt", "x_grad", "gradient", "nfringe"})
          EXCEPT !.fills = {"A4[:,2]"}],
      [Stmt(170, {"zgrad"}, {"nfringe"}) EXCEPT !.clears = {"zgrad"}],
      [Stmt(171, {"zgrad"}, {"zgrad", "z1", "x", "tt", "nfringe"})
          EXCEPT !.fills = {"zgrad"}],
      Stmt(172, {"modkor"}, {"A_grad1", "x"}),
      Stmt(173, {"zgrad"}, {"zgrad", "modkor"}),
      Stmt(174, {"AA4"}, {"A4", "frmin", "frmax"}),
      Stmt(175, {"zgrad4"}, {"zgrad", "frmin", "frmax"}),
      SolveStmt(177, 4, {"xgrad4", "covarXgrad4", "m0grad4", "stdGrad4",
                         "stdGradX", "Resgrad4"}, "AA4", "zgrad4"),
      Stmt(183, {"resgrad4"}, {"zgrad", "A4", "xgrad4"}),
      Stmt(188, {"g0_Gr"}, {"x_grad"}),
      Stmt(189, {"z0"}, {"x"}),
      Stmt(190, {"v0"}, {"x"}),
      Stmt(192, {"g0"}, {"x"})>>

\* A slip that would take g0 from the cross-check solution xef.
ProgramFromXef ==
    Build \o [k \in DOMAIN Fit |->
                 IF Fit[k].line = 192 THEN [Fit[k] EXCEPT !.r = {"xef"}]
                 ELSE Fit[k]]

Program == Build \o Fit

Names == UNION {Program[k].w \cup Program[k].r : k \in DOMAIN Program}

\* What outlives a call of LST: the attributes of self.
Attributes ==
    FitOutputs \cup CalibrationAttrs \cup {"fringe", "ksol", "c", "tt"}

Locals == Names \ Attributes

Vectors == {"z1", "tt", "A4[:,2]", "zgrad"}

(***************************************************************************)
(* flow: call is the number of the call of LST, at the statement about to  *)
(* run (0: no call is running), i the index of the loop, n = nfringe.      *)
(* deps[v] is the set of solves <<k, call>> the value of v was computed    *)
(* from, ver[v] the <<call, statement>> that last bound v, filled[v] the   *)
(* indices of vector v assigned since it was allocated, order the solves   *)
(* started in this call with what they were passed.                        *)
(***************************************************************************)
NoFlow ==
    [call |-> 0, at |-> 0, i |-> 0, n |-> 0,
     deps |-> [v \in Names |-> {}],
     ver |-> [v \in Names |-> <<0, 0>>],
     filled |-> [v \in Vectors |-> {}],
     order |-> <<>>]

Advance(at) == IF at = Len(Program) THEN 0 ELSE at + 1

\* The names of st.w bound to values computed from st.r (and from the
\* solve tag, for the results of computeLST).
Bind(fl, st, tag) ==
    LET from == UNION {fl.deps[r] : r \in st.r} \cup tag
    IN  [fl EXCEPT
            !.deps = [v \in Names |-> IF v \in st.w THEN from ELSE @[v]],
            !.ver = [v \in Names |->
                        IF v \in st.w THEN <<fl.call, fl.at>> ELSE @[v]],
            !.filled = [v \in Vectors |->
                           IF v \in st.clears THEN {}
                           ELSE IF v \in st.fills THEN 0..(fl.n - 1)
                           ELSE @[v]]]

\* What a call of computeLST is handed.
Started(fl, st) ==
    [solve |-> st.solve, A |-> st.A, z |-> st.z, zver |-> fl.ver[st.z],
     deps |-> fl.deps[st.A] \cup fl.deps[st.z], filled |-> fl.filled]

(***************************************************************************)
(* Calls.  Store binds the attributes to the instance the method was       *)
(* called on.  hist keeps, per instance: the methods that have completed   *)
(* (done), how the latest call of LST ended (fit), the derived methods     *)
(* completed since (derived).                                              *)
(***************************************************************************)
Setters ==
    {"setLambda", "setScaleFactor", "setMultiplex", "setGradient",
     "setModulFreq", "setLpar", "setRubiFreq", "setFrRange", "setFRssRange"}

DerivedOps ==
    {"effectiveHeight", "effectiveHeightTop", "effectivePosition", "gTop",
     "gTopCor"}

NoHist ==
    [done |-> {}, fit |-> "none", derived |-> {}, args |-> <<0, 0, 0, 0>>]

\* Attributes kept on the class instead of the instance: one store for all.
StoreShared(fl, i, f) == [j \in DOMAIN fl |-> f]

Store(fl, i, f) == [fl EXCEPT ![i] = f]

Note(hh, op, exc) ==
    [done |-> IF exc = "none" THEN hh.done \cup {op} ELSE hh.done,
     fit |-> IF op # "LST" THEN hh.fit
             ELSE IF exc = "none" THEN "ok" ELSE "failed",
     derived |-> IF op = "LST" THEN {}
                 ELSE IF op \in DerivedOps /\ exc = "none"
                 THEN hh.derived \cup {op} ELSE hh.derived,
     args |-> hh.args]

Call(i, op, out) ==
    /\ fall' = Store(fall, i, out.f)
    /\ hist' = [hist EXCEPT ![i] = Note(@, op, out.exc)]

Idle == UNCHANGED <<pc, estimFile, mat, flow>>

Set(i, op, f) == Call(i, op, Result(f, "none")) /\ UNCHANGED lst /\ Idle

Derive(i, op, out) == Call(i, op, out) /\ UNCHANGED lst /\ Idle

\* The actions: a call of one method on one instance, its arguments drawn
\* from the set given.
SetFringe(args) ==
    \E i \in DOMAIN fall, v \in args :
        Set(i, "setFringe", setFringe(fall[i], v))
SetLambda(args) ==
    \E i \in DOMAIN fall, v \in args :
        Set(i, "setLambda", setLambda(fall[i], v))
SetScaleFactor(args) ==
    \E i \in DOMAIN fall, v \in args :
        Set(i, "setScaleFactor", setScaleFactor(fall[i], v))
SetMultiplex(args) ==
    \E i \in DOMAIN fall, v \in args :
        Set(i, "setMultiplex", setMultiplex(fall[i], v))
SetGradient(args) ==
    \E i \in DOMAIN fall, v \in args :
        Set(i, "setGradient", setGradient(fall[i], v))
SetModulFreq(args) ==
    \E i \in DOMAIN fall, v \in args :
        Set(i, "setModulFreq", setModulFreq(fall[i], v))
SetLpar(args) ==
    \E i \in DOMAIN fall, v \in args :
        Set(i, "setLpar", setLpar(fall[i], v))
SetRubiFreq(args) ==
    \E i \in DOMAIN fall, v \in args :
        Set(i, "setRubiFreq", setRubiFreq(fall[i], v))
SetFrRange(args) ==
    \E i \in DOMAIN fall, r \in args :
        Set(i, "setFrRange", setFrRange(fall[i], r[1], r[2]))
SetFRssRange(args) ==
    \E i \in DOMAIN fall, r \in args :
        Set(i, "setFRssRange", setFRssRange(fall[i], r[1], r[2]))

\* reuse: whether an instance on which LST has run is fitted again.
RunLST(sols, numerics, reuse) ==
    \E i \in DOMAIN fall, sol \in sols, nu \in numerics :
        LET out == LST(fall[i], i, sol, nu[1], nu[2])
        IN  /\ reuse \/ hist[i].fit = "none"
            /\ Call(i, "LST", Result(out.f, out.exc))
            /\ lst' = out.frame
            /\ Idle

EffectiveHeight ==
    \E i \in DOMAIN fall :
        Derive(i, "effectiveHeight", effectiveHeight(fall[i]))
EffectiveHeightTop ==
    \E i \in DOMAIN fall :
        Derive(i, "effectiveHeightTop", effectiveHeightTop(fall[i]))
EffectivePosition ==
    \E i \in DOMAIN fall :
        Derive(i, "effectivePosition", effectivePosition(fall[i]))
GTop ==
    \E i \in DOMAIN fall : Derive(i, "gTop", gTop(fall[i]))
\* hist keeps the corrections of the last call of gTopCor.
GTopCor(args) ==
    \E i \in DOMAIN fall, t \in args :
        /\ fall' = Store(fall, i, gTopCor(fall[i], t[1], t[2], t[3], t[4]).f)
        /\ hist' = [hist EXCEPT ![i] =
                        [Note(@, "gTopCor",
                              gTopCor(fall[i], t[1], t[2], t[3], t[4]).exc)
                            EXCEPT !.args = t]]
        /\ UNCHANGED lst /\ Idle

(***************************************************************************)
(* Inputs.  A fringe series is n readings; the readings themselves only    *)
(* feed the floating-point solve, so one series per length is enough.      *)
(***************************************************************************)
Times(n) == [k \in 1..n |-> k]

LambdaArgs == {633}
ScaleFactorArgs == {1}
MultiplexArgs == {4}
ModulFreqArgs == {8333}
LparArgs == {1000}
RubiFreqArgs == {10000000}

Numerics == {0, 1, 2, 4} \X BOOLEAN

\* The life cycle of one reused instance: one calibration, one fringe series.
LifeGradArgs == {0, 3}
LifeFrRanges == {<<1, MaxFringe>>}
LifeSsRanges == {<<MaxFringe, 1>>}
LifeFringes == {Times(0), Times(MaxFringe)}
LifeSols == {[z0 |-> 5, v0 |-> 6, g0 |-> 10, g0_Gr |-> 12]}
LifeCorrections == {<<1, 2, -1, 3>>}

InitFall(n) ==
    /\ fall = [i \in 1..n |-> Fresh]
    /\ hist = [i \in 1..n |-> NoHist]
    /\ lst = NoFrame
    /\ pc = [i \in 1..n |-> [at |-> 1, failed |-> FALSE]]

\* estim.__init__ has written the header line and the units line.
NoCall == [X |-> <<>>, std |-> <<>>, set |-> 0, drop |-> 0, m0 |-> <<>>]

InitEstim == estimFile = [lines |-> 2, rows |-> <<>>, call |-> NoCall]

NoMat ==
    [built |-> FALSE, t |-> 0, q1 |-> 0, q2 |-> 0, qL |-> 0, grad |-> 0,
     line |-> <<>>, line_grad |-> <<>>]

InitMat == mat = NoMat

InitFlow == flow = NoFlow

Init == InitFall(1) /\ InitEstim /\ InitMat /\ InitFlow

Next ==
    \/ SetFringe(LifeFringes)
    \/ SetLambda(LambdaArgs)
    \/ SetScaleFactor(ScaleFactorArgs)
    \/ SetMultiplex(MultiplexArgs)
    \/ SetGradient(LifeGradArgs)
    \/ SetModulFreq(ModulFreqArgs)
    \/ SetLpar(LparArgs)
    \/ SetRubiFreq(RubiFreqArgs)
    \/ SetFrRange(LifeFrRanges)
    \/ SetFRssRange(LifeSsRanges)
    \/ RunLST(LifeSols, Numerics, TRUE)
    \/ EffectiveHeight
    \/ EffectiveHeightTop
    \/ EffectivePosition
    \/ GTop
    \/ GTopCor(LifeCorrections)

Spec == Init /\ [][Next]_vars

(***************************************************************************)
(* The fit alone, over many fit ranges, statistics ranges and fringe       *)
(* counts: valid ranges, ranges with no degree of freedom left, ranges     *)
(* that reach past the fringes, a range that starts at 0 (stored as -1)    *)
(* and an inverted one.                                                    *)
(***************************************************************************)
FitFrRanges ==
    {<<1, MaxFringe>>, <<2, MaxFringe>>, <<1, MaxFringe + 1>>,
     <<3, MaxFringe + 1>>, <<0, MaxFringe>>, <<MaxFringe, 2>>,
     <<1, 10>>, <<1, 9>>}
FitSsRanges ==
    {<<MaxFringe, 1>>, <<MaxFringe + 1, 1>>, <<MaxFringe - 2, 0>>, <<2, 4>>}
FitFringes == {Times(MaxFringe - 1), Times(MaxFringe)}

\* An instance whose seven scalar setters have been called.
Calibrated ==
    setRubiFreq(setLpar(setModulFreq(setGradient(setMultiplex(
        setScaleFactor(setLambda(Fresh, 633), 1), 4), 3), 8333), 1000),
        10000000)

ScalarSetters == Setters \ {"setFrRange", "setFRssRange"}

InitFit ==
    /\ fall = [i \in 1..1 |-> Calibrated]
    /\ hist = [i \in 1..1 |-> [NoHist EXCEPT !.done = ScalarSetters]]
    /\ lst = NoFrame
    /\ pc = [i \in 1..1 |-> [at |-> 1, failed |-> FALSE]]
    /\ InitEstim /\ InitMat /\ InitFlow

NextFit ==
    \/ SetFringe(FitFringes)
    \/ SetFrRange(FitFrRanges)
    \/ SetFRssRange(FitSsRanges)
    \/ RunLST(LifeSols, Numerics, FALSE)

SpecFit == InitFit /\ [][NextFit]_vars

(***************************************************************************)
(* The loop body on its own: the inputs of one fringe index are drawn at   *)
(* the start and FillRow builds the two matrix rows from them.             *)
(***************************************************************************)
MatInputs ==
    {[NoMat EXCEPT !.t = t, !.q1 = q1, !.q2 = q2, !.qL = qL, !.grad = g] :
        t \in 0..MaxTime, q1 \in 0..3, q2 \in 0..3, qL \in 0..3,
        g \in {0, 3}}

FillRow ==
    LET b == LoopBody(mat.t, mat.q1, mat.q2, mat.qL,
                      setGradient(Fresh, mat.grad).gradient)
    IN  /\ ~mat.built
        /\ mat' = [mat EXCEPT !.built = TRUE, !.line = b.line,
                              !.line_grad = b.line_grad]
        /\ UNCHANGED <<fall, hist, lst, pc, estimFile, flow>>

InitMatrix == InitFall(1) /\ InitEstim /\ InitFlow /\ mat \in MatInputs

SpecMatrix == InitMatrix /\ [][FillRow]_vars

(***************************************************************************)
(* printResult on its own: the arguments of one call are drawn at the      *)
(* start and PrintResult writes the row.  X[4..9] and std[4..9] are the    *)
(* six amplitudes a1..a6.                                                  *)
(***************************************************************************)
Amplitudes == [k \in 1..6 |-> Dec(10 * k + 1, -3)]
AmplitudeStds == [k \in 1..6 |-> Dec(10 * k + 2, -7)]

PrintCalls ==
    {[X |-> <<z0, v0, g0>> \o Amplitudes,
      std |-> <<sz0, sv0, sg0>> \o AmplitudeStds,
      set |-> set, drop |-> 7, m0 |-> <<Dec(31, -1), Dec(99, 0)>>] :
        z0 \in {Dec(1234567, -1), Dec(-45678, 0)},
        v0 \in {Dec(7654321, -2), Dec(120, 0)},
        g0 \in {Dec(98123456, -4), Dec(-5, 0)},
        sz0 \in {Dec(1234, -10), Dec(2, 0)},
        sv0 \in {Dec(5678, -11), Dec(3, -1)},
        sg0 \in {Dec(98764, -4), Dec(12, -1)},
        set \in {1, 2}}

PrintResult ==
    /\ estimFile.rows = <<>>
    /\ estimFile' = LET c == estimFile.call
                    IN  printResult(estimFile, c.X, c.std, c.set, c.drop, c.m0)
    /\ UNCHANGED <<fall, hist, lst, pc, mat, flow>>

InitPrint ==
    /\ InitFall(1) /\ InitMat /\ InitFlow
    /\ estimFile \in {[lines |-> 2, rows |-> <<>>, call |-> c] : c \in PrintCalls}

SpecPrint == InitPrint /\ [][PrintResult]_vars

(***************************************************************************)
(* The derived quantities on their own: an instance calibrated and loaded  *)
(* with valid ranges is fitted once, the fit yielding any of DerSols, and  *)
(* the derived methods and setGradient are called in any order.            *)
(***************************************************************************)
DerGradArgs == {-3, 0, 2}

DerSols ==
    {[z0 |-> z0, v0 |-> v0, g0 |-> g0, g0_Gr |-> gr] :
        z0 \in {0, 5}, v0 \in {-4, 6}, g0 \in {8, 10}, gr \in {0, 10, 13}}

DerCorrections == {<<1, 2, -1, 3>>, <<0, -2, 0, 0>>}

Loaded ==
    setFRssRange(setFrRange(setFringe(Calibrated, Times(MaxFringe)),
                            1, MaxFringe), MaxFringe, 1)

InitDerived ==
    /\ fall = [i \in 1..1 |-> Loaded]
    /\ hist = [i \in 1..1 |-> [NoHist EXCEPT !.done = Setters]]
    /\ lst = NoFrame
    /\ pc = [i \in 1..1 |-> [at |-> 1, failed |-> FALSE]]
    /\ InitEstim /\ InitMat /\ InitFlow

NextDerived ==
    \/ SetGradient(DerGradArgs)
    \/ RunLST(DerSols, {<<0, FALSE>>}, FALSE)
    \/ EffectiveHeight
    \/ EffectiveHeightTop
    \/ EffectivePosition
    \/ GTop
    \/ GTopCor(DerCorrections)

SpecDerived == InitDerived /\ [][NextDerived]_vars

(***************************************************************************)
(* Concurrent drops.  The caller is not part of src/: as the specification *)
(* describes it, a worker owns one Fall instance and takes it through its  *)
(* pipeline, the calibration setters, setFringe, LST and the derived       *)
(* methods, with the calibration values of its own drop; a method that     *)
(* raises ends the worker.  The scheduler interleaves the workers' calls   *)
(* in any order.  pc[w] is the position of worker w in its pipeline.       *)
(***************************************************************************)
Pipeline ==
    <<"setLambda", "setScaleFactor", "setMultiplex", "setGradient",
      "setModulFreq", "setLpar", "setRubiFreq", "setFrRange", "setFRssRange",
      "setFringe", "LST", "effectiveHeight", "effectiveHeightTop",
      "effectivePosition", "gTop", "gTopCor">>

\* The values of drop w.
Drop(w) ==
    [Lambda |-> 632 + w, scaleFactor |-> 1, multiplex |-> 4, grad |-> 2 + w,
     fmod |-> 8333, Lpar |-> 1000 + w, rubiFreq |-> 10000000,
     frRange |-> <<1, MaxFringe - 1>>, ssRange |-> <<MaxFringe - 1, 1>>,
     times |-> Times(MaxFringe - (w % 2)),
     sol |-> [z0 |-> w, v0 |-> 2 * w, g0 |-> 10 + w, g0_Gr |-> 12 + 2 * w],
     corrections |-> <<w, 1, 0, -1>>]

FitOf(w, f) == LST(f, w, Drop(w).sol, 0, FALSE)

StepOf(w, op, f) ==
    LET d == Drop(w)
    IN  CASE op = "setLambda" -> Result(setLambda(f, d.Lambda), "none")
          [] op = "setScaleFactor" ->
                 Result(setScaleFactor(f, d.scaleFactor), "none")
          [] op = "setMultiplex" -> Result(setMultiplex(f, d.multiplex), "none")
          [] op = "setGradient" -> Result(setGradient(f, d.grad), "none")
          [] op = "setModulFreq" -> Result(setModulFreq(f, d.fmod), "none")
          [] op = "setLpar" -> Result(setLpar(f, d.Lpar), "none")
          [] op = "setRubiFreq" -> Result(setRubiFreq(f, d.rubiFreq), "none")
          [] op = "setFrRange" ->
                 Result(setFrRange(f, d.frRange[1], d.frRange[2]), "none")
          [] op = "setFRssRange" ->
                 Result(setFRssRange(f, d.ssRange[1], d.ssRange[2]), "none")
          [] op = "setFringe" -> Result(setFringe(f, d.times), "none")
          [] op = "LST" -> Result(FitOf(w, f).f, FitOf(w, f).exc)
          [] op = "effectiveHeight" -> effectiveHeight(f)
          [] op = "effectiveHeightTop" -> effectiveHeightTop(f)
          [] op = "effectivePosition" -> effectivePosition(f)
          [] op = "gTop" -> gTop(f)
          [] op = "gTopCor" ->
                 gTopCor(f, d.corrections[1], d.corrections[2],
                         d.corrections[3], d.corrections[4])

WorkerStep ==
    \E w \in DOMAIN fall :
        /\ pc[w].at <= Len(Pipeline)
        /\ ~pc[w].failed
        /\ LET op == Pipeline[pc[w].at]
               out == StepOf(w, op, fall[w])
           IN  /\ fall' = Store(fall, w, out.f)
               /\ hist' = [hist EXCEPT ![w] = Note(@, op, out.exc)]
               /\ pc' = [pc EXCEPT ![w] = [at |-> @.at + 1,
                                           failed |-> out.exc # "none"]]
               /\ lst' = IF op = "LST" THEN FitOf(w, fall[w]).frame ELSE lst
        /\ UNCHANGED <<estimFile, mat, flow>>

InitConc == InitFall(MaxWorkers) /\ InitEstim /\ InitMat /\ InitFlow

SpecConc == InitConc /\ [][WorkerStep]_vars

(***************************************************************************)
(* The statements of LST one by one, on a calibrated and loaded instance:  *)
(* a call starts with nfringe = n, each statement binds its names, a call  *)
(* of computeLST returns or raises (which ends the call of LST, the locals *)
(* are lost and the attributes assigned so far stay), and LST may be       *)
(* called again.                                                           *)
(***************************************************************************)
FlowIdle == UNCHANGED <<fall, hist, lst, pc, estimFile, mat>>

StartLST ==
    /\ flow.at = 0
    /\ flow.call < MaxCalls
    /\ \E n \in 1..MaxIndex :
           flow' = [flow EXCEPT
                       !.call = @ + 1, !.at = 1, !.i = 0, !.n = n,
                       !.deps = [v \in Names |->
                                    IF v \in Locals THEN {} ELSE @[v]],
                       !.ver = [v \in Names |->
                                   IF v \in Locals THEN <<0, 0>> ELSE @[v]],
                       !.filled = [v \in Vectors |->
                                      IF v \in Locals \cup {"A4[:,2]"}
                                      THEN {} ELSE @[v]],
                       !.order = <<>>]
    /\ FlowIdle

ExecStmt ==
    /\ flow.at > 0
    /\ Program[flow.at].kind = "assign"
    /\ flow' = [Bind(flow, Program[flow.at], {}) EXCEPT !.at = Advance(@)]
    /\ FlowIdle

LoopStep ==
    /\ flow.at > 0
    /\ Program[flow.at].kind = "loop"
    /\ LET b == Bind(flow, Program[flow.at], {})
           last == flow.i + 1 = flow.n
       IN  flow' = [b EXCEPT
                       !.filled = [v \in Vectors |->
                                      IF v \in {"z1", "tt"}
                                      THEN @[v] \cup {flow.i} ELSE @[v]],
                       !.i = IF last THEN 0 ELSE @ + 1,
                       !.at = IF last THEN Advance(@) ELSE @]
    /\ FlowIdle

SolveReturns ==
    /\ flow.at > 0
    /\ Program[flow.at].kind = "solve"
    /\ LET st == Program[flow.at]
       IN  flow' = [Bind(flow, st, {<<st.solve, flow.call>>}) EXCEPT
                       !.order = Append(@, Started(flow, st)),
                       !.at = Advance(@)]
    /\ FlowIdle

SolveRaises ==
    /\ flow.at > 0
    /\ Program[flow.at].kind = "solve"
    /\ flow' = [flow EXCEPT
                   !.order = Append(@, Started(flow, Program[flow.at])),
                   !.at = 0]
    /\ FlowIdle

NextFlow ==
    \/ StartLST
    \/ ExecStmt
    \/ LoopStep
    \/ SolveReturns
    \/ SolveRaises

InitFlowing ==
    /\ fall = [i \in 1..1 |-> Loaded]
    /\ hist = [i \in 1..1 |-> [NoHist EXCEPT !.done = Setters]]
    /\ lst = NoFrame
    /\ pc = [i \in 1..1 |-> [at |-> 1, failed |-> FALSE]]
    /\ InitEstim /\ InitMat /\ InitFlow

SpecFlow == InitFlowing /\ [][NextFlow]_vars

(***************************************************************************)
(* Repeated calls of the derived methods: the instance has been fitted and *)
(* the five derived methods have run once, in the order effectiveHeight,   *)
(* effectiveHeightTop, effectivePosition, gTop, gTopCor; then any of them  *)
(* is called again, gTopCor with the corrections of its first call.        *)
(* pc[i].at counts the repeated calls and pc[i].failed tells whether one   *)
(* of them raised.                                                         *)
(***************************************************************************)
AgainGradArgs == {-3, 2}

Fitted(sol, grad) == LST(setGradient(Loaded, grad), 1, sol, 0, FALSE).f

DerivedOnce(f, t) ==
    gTopCor(gTop(effectivePosition(effectiveHeightTop(
        effectiveHeight(f).f).f).f).f, t[1], t[2], t[3], t[4]).f

CallOf(op, f, t) ==
    CASE op = "effectiveHeight" -> effectiveHeight(f)
      [] op = "effectiveHeightTop" -> effectiveHeightTop(f)
      [] op = "effectivePosition" -> effectivePosition(f)
      [] op = "gTop" -> gTop(f)
      [] op = "gTopCor" -> gTopCor(f, t[1], t[2], t[3], t[4])

CallAgain ==
    \E i \in DOMAIN fall, op \in DerivedOps :
        LET out == CallOf(op, fall[i], hist[i].args)
        IN  /\ pc[i].at <= MaxAgain
            /\ Call(i, op, out)
            /\ pc' = [pc EXCEPT ![i] = [at |-> @.at + 1,
                                        failed |-> @.failed
                                                   \/ out.exc # "none"]]
            /\ UNCHANGED <<lst, estimFile, mat, flow>>

InitAgain ==
    /\ \E sol \in DerSols, grad \in AgainGradArgs, t \in DerCorrections :
           /\ fall = [i \in 1..1 |-> DerivedOnce(Fitted(sol, grad), t)]
           /\ hist = [i \in 1..1 |->
                         [done |-> Setters \cup {"setFringe", "LST"}
                                       \cup DerivedOps,
                          fit |-> "ok", derived |-> DerivedOps, args |-> t]]
    /\ lst = NoFrame
    /\ pc = [i \in 1..1 |-> [at |-> 1, failed |-> FALSE]]
    /\ InitEstim /\ InitMat /\ InitFlow

SpecAgain == InitAgain /\ [][CallAgain]_vars

(***************************************************************************)
(* C2.  A failed regression fails the whole drop: once a call of LST has   *)
(* raised, the instance holds none of the fit outputs (neither from the    *)
(* solves that returned before the failure nor from an earlier drop), and  *)
(* no derived-quantity method completes until LST has run again.           *)
(***************************************************************************)
C2Outputs ==
    {"m02", "std", "stdX", "x_grad", "xef", "ssres", "xgrad4", "g0", "g0_Gr",
     "z0", "v0"}

C2_FailedFitLeavesNothing ==
    \A i \in DOMAIN fall :
        hist[i].fit = "failed" =>
            /\ fall[i].has \cap C2Outputs = {}
            /\ hist[i].derived = {}

(***************************************************************************)
(* C3.  LST completes only after every calibration setter and setFringe    *)
(* have completed; a derived-quantity method completes only after LST has  *)
(* completed and after the methods whose results it reads.                 *)
(*   As claimed: gTop completes only after effectiveHeightTop completed.   *)
(*   As the code has it: gTop completes only after effectiveHeightTop has  *)
(*   assigned Grad, which it does before it reads h and may then raise.    *)
(***************************************************************************)
C3Common(i) ==
    LET d == hist[i].done
    IN  /\ "LST" \in d => (Setters \cup {"setFringe"}) \subseteq d
        /\ d \cap DerivedOps # {} => "LST" \in d
        /\ "effectiveHeightTop" \in d => "effectiveHeight" \in d
        /\ "effectivePosition" \in d => "effectiveHeight" \in d
        /\ "gTopCor" \in d => "gTop" \in d

C3_OrderOfMethods ==
    \A i \in DOMAIN fall :
        /\ C3Common(i)
        /\ "gTop" \in hist[i].done => "effectiveHeightTop" \in hist[i].done

C3_OrderOfValues ==
    \A i \in DOMAIN fall :
        /\ C3Common(i)
        /\ "gTop" \in hist[i].done =>
               /\ "Grad" \in fall[i].has
               /\ {"LST", "setGradient"} \subseteq hist[i].done

C3_Witness ==
    \E i \in DOMAIN fall :
        /\ DerivedOps \subseteq hist[i].done
        /\ hist[i].fit = "ok"

(***************************************************************************)
(* C1.  In every solve LST makes through computeLST, no result is returned *)
(* when the matrix passed in leaves no degree of freedom:                  *)
(* rows - k - 1 <= 0 implies that the solve raised.                        *)
(***************************************************************************)
C1_NoResultWithoutFreedom ==
    \A n \in 1..Len(lst.solves) :
        LET s == lst.solves[n]
        IN  s.rows - s.k - 1 <= 0 => s.exc # "none"

(***************************************************************************)
(* C5.  In every solve that returns, the denominator of the variance       *)
(* factor is rows(A) - cols(A) - 1 for the matrix A passed in.             *)
(***************************************************************************)
C5_DenominatorIsRowsMinusCols ==
    \A n \in 1..Len(lst.solves) :
        LET s == lst.solves[n]
        IN  s.exc = "none" => s.den = s.rows - s.k - 1

(***************************************************************************)
(* C6.  ssres is the root mean square of the residuals in the statistics   *)
(* range: the divisor under the square root is the number of residuals     *)
(* summed, res_grad1[frminss:frmaxss].                                     *)
(***************************************************************************)
C6_SsresDivisorIsCount ==
    \A i \in DOMAIN fall :
        Has(fall[i], "ssres") => fall[i].ssres.div = fall[i].ssres.count

(***************************************************************************)
(* C7.  Whenever LST slices the matrices, 0 <= frmin < frmax <= nfringe,   *)
(* and whenever it slices the residuals, 0 <= frminss <= frmaxss <=        *)
(* nfringe.                                                                *)
(***************************************************************************)
C7_RangesValidWhenFitRuns ==
    /\ lst.ranges =>
           /\ 0 <= lst.frmin
           /\ lst.frmin < lst.frmax
           /\ lst.frmax <= lst.nfringe
    /\ lst.ssRanges =>
           /\ 0 <= lst.frminss
           /\ lst.frminss <= lst.frmaxss
           /\ lst.frmaxss <= lst.nfringe

(***************************************************************************)
(* C4.  The periodic columns of a row of A1 and of A_grad1.                *)
(*   As claimed: columns 4-7 hold sin(phi1)cos(phi2), cos(phi1)cos(phi2),  *)
(*   cos(phi1)sin(phi2), sin(phi1)sin(phi2).                               *)
(*   As the code has it: columns 4-7 hold sin(phi1)sin(phi2),              *)
(*   sin(phi1)cos(phi2), cos(phi1)sin(phi2), cos(phi1)cos(phi2).           *)
(*   In both: columns 8-9 hold sin(2 pi z/Lpar), cos(2 pi z/Lpar).         *)
(***************************************************************************)
PeriodicColumns(row) == <<row[4], row[5], row[6], row[7]>>

LparColumns(row) == <<row[8], row[9]>>

C4_ColumnsAsClaimed ==
    mat.built =>
        LET s1 == Sin4(mat.q1)
            c1 == Cos4(mat.q1)
            s2 == Sin4(mat.q2)
            c2 == Cos4(mat.q2)
            want == <<Int2Rat(s1 * c2), Int2Rat(c1 * c2), Int2Rat(c1 * s2),
                      Int2Rat(s1 * s2)>>
        IN  /\ PeriodicColumns(mat.line) = want
            /\ PeriodicColumns(mat.line_grad) = want

C4_ColumnsOfTheCode ==
    mat.built =>
        LET s1 == Sin4(mat.q1)
            c1 == Cos4(mat.q1)
            s2 == Sin4(mat.q2)
            c2 == Cos4(mat.q2)
            want == <<Int2Rat(s1 * s2), Int2Rat(s1 * c2), Int2Rat(c1 * s2),
                      Int2Rat(c1 * c2)>>
            lpar == <<Int2Rat(Sin4(mat.qL)), Int2Rat(Cos4(mat.qL))>>
        IN  /\ Len(mat.line) = 9 /\ Len(mat.line_grad) = 9
            /\ PeriodicColumns(mat.line) = want
            /\ PeriodicColumns(mat.line_grad) = want
            /\ LparColumns(mat.line) = lpar
            /\ LparColumns(mat.line_grad) = lpar

\* A row where exactly one of the four products is not zero.
C4_Witness ==
    /\ mat.built
    /\ mat.q1 = 1 /\ mat.q2 = 0 /\ mat.qL = 1
    /\ PeriodicColumns(mat.line) =
           <<Int2Rat(0), Int2Rat(1), Int2Rat(0), Int2Rat(0)>>

(***************************************************************************)
(* C10.  The row printResult writes has 21 fields: set, drop, m0[0], then  *)
(* value and standard deviation of z0, v0, g0, a1..a6.  The value and the  *)
(* standard deviation of z0 and of v0 are the inputs times 1e-6 rounded to *)
(* 4, 14, 4 and 15 decimals; the standard deviation of g0 is the input     *)
(* rounded to 3 decimals; every other field is the input itself.           *)
(* IsRounded(y, x, d): y is x kept as it is when x has at most d decimals, *)
(* else a multiple of 10^-d at most half a unit away from x.               *)
(***************************************************************************)
IsRounded(y, x, d) ==
    IF x.e >= -d THEN y = x
    ELSE LET p == Pow10(-d - x.e)
         IN  /\ y.e = -d
             /\ 2 * Abs(y.m * p - x.m) <= p

IsScaledRounded(y, x, d) == IsRounded(y, Dec(x.m, x.e - 6), d)

C10_RowLayout ==
    \A n \in 1..Len(estimFile.rows) :
        LET row == estimFile.rows[n]
            c == estimFile.call
        IN  /\ Len(row) = 21
            /\ row[1] = Dec(c.set, 0)
            /\ row[2] = Dec(c.drop, 0)
            /\ row[3] = c.m0[1]
            /\ IsScaledRounded(row[4], c.X[1], 4)
            /\ IsScaledRounded(row[5], c.std[1], 14)
            /\ IsScaledRounded(row[6], c.X[2], 4)
            /\ IsScaledRounded(row[7], c.std[2], 15)
            /\ row[8] = c.X[3]
            /\ IsRounded(row[9], c.std[3], 3)
            /\ \A k \in 4..9 :
                   /\ row[2 + 2 * k] = c.X[k]
                   /\ row[3 + 2 * k] = c.std[k]

\* A row whose five treated fields all differ from the inputs.
C10_Witness ==
    /\ Len(estimFile.rows) = 1
    /\ LET row == estimFile.rows[1]
           c == estimFile.call
       IN  /\ row[4] = Dec(1235, -4) /\ c.X[1] = Dec(1234567, -1)
           /\ row[5] = Dec(12, -14)
           /\ row[6] = Dec(765, -4)
           /\ row[7] = Dec(57, -15)
           /\ row[8] = Dec(98123456, -4)
           /\ row[9] = Dec(9876, -3)

(***************************************************************************)
(* C8.  On a fitted instance with gradient # 0 and g0_Gr # 0, every value  *)
(* a derived method assigns is the closed form of the values the instance  *)
(* holds at the call:                                                      *)
(*   h * gradient = g0 - g0_Gr          (h = -(g0_Gr - g0)/gradient)       *)
(*   Grad * 2*g0_Gr = v0^2              (Grad = v0^2/(2*g0_Gr))            *)
(*   htop = h + Grad,  effectiveZ = h + z0                                 *)
(*   gTop + gradient*Grad = g0_Gr       (gTop = g0_Gr - gradient*Grad)     *)
(*   gTopCor = gTop + 10*(tide + load + baro + polar)                      *)
(* exactly, in rational arithmetic.                                        *)
(***************************************************************************)
Assigned(a, f, g) == Has(g, a) /\ (~Has(f, a) \/ g[a] # f[a])

C8_ClosedForms ==
    [][\A i \in DOMAIN fall :
        LET f == fall[i]
            g == fall'[i]
            t == hist'[i].args
        IN  (hist[i].fit = "ok" /\ hist'[i].fit = "ok"
             /\ f.gradient = g.gradient /\ f.gradient[1] # 0 /\ f.g0_Gr # 0)
            =>
            /\ Assigned("h", f, g) =>
                   RatMul(g.h, f.gradient) = Int2Rat(f.g0 - f.g0_Gr)
            /\ Assigned("Grad", f, g) =>
                   RatMul(g.Grad, Int2Rat(2 * f.g0_Gr)) = Int2Rat(f.v0 * f.v0)
            /\ Assigned("htop", f, g) => g.htop = RatAdd(g.h, g.Grad)
            /\ Assigned("effectiveZ", f, g) =>
                   g.effectiveZ = RatAdd(g.h, Int2Rat(f.z0))
            /\ Assigned("gTop", f, g) =>
                   RatAdd(g.gTop, RatMul(f.gradient, g.Grad)) =
                       Int2Rat(f.g0_Gr)
            /\ Assigned("gTopCor", f, g) =>
                   g.gTopCor =
                       RatAdd(g.gTop, Int2Rat(10 * (t[1] + t[2] + t[3] + t[4])))
    ]_vars

\* All five methods have completed and every value is finite and differs
\* from the one it is derived from.
C8_Witness ==
    \E i \in DOMAIN fall :
        LET f == fall[i]
        IN  /\ hist[i].fit = "ok" /\ hist[i].derived = DerivedOps
            /\ f.gradient[1] # 0 /\ f.g0_Gr # 0 /\ f.g0_Gr # f.g0
            /\ Finite(f.h) /\ f.h[1] # 0
            /\ f.h[1] * f.gradient[1] * (f.g0 - f.g0_Gr) > 0
            /\ Finite(f.Grad) /\ f.Grad[1] # 0
            /\ f.htop = RatAdd(f.h, f.Grad)
            /\ Finite(f.gTop) /\ f.gTop # Int2Rat(f.g0_Gr)
            /\ Finite(f.gTopCor) /\ f.gTopCor = RatAdd(f.gTop, Int2Rat(50))

(***************************************************************************)
(* C9.  Under every interleaving of the workers' calls, each instance is   *)
(* in the state the sequential run of its own pipeline gives it after the  *)
(* same number of its calls: no call on one instance changes, or depends   *)
(* on, another instance.                                                   *)
(***************************************************************************)
RECURSIVE SeqRun(_, _)
SeqRun(w, n) ==
    IF n = 0 THEN Fresh ELSE StepOf(w, Pipeline[n], SeqRun(w, n - 1)).f

C9_ConcurrentEqualsSequential ==
    \A w \in DOMAIN fall : fall[w] = SeqRun(w, pc[w].at - 1)

\* Every worker has run its whole pipeline and the drops' results differ.
C9_Witness ==
    /\ \A w \in DOMAIN fall :
           /\ pc[w].at = Len(Pipeline) + 1 /\ ~pc[w].failed
           /\ hist[w].fit = "ok" /\ hist[w].derived = DerivedOps
           /\ Has(fall[w], "gTopCor")
    /\ fall[1].gTopCor # fall[2].gTopCor
    /\ fall[1].Lambda # fall[2].Lambda

(***************************************************************************)
(* C11.  Once LST has started on an instance, no call changes the          *)
(* calibration values or the fringe series of that instance: every step    *)
(* taken after a call of LST (hist[i].fit # "none") leaves gradient,       *)
(* frmin, frmax, frminss, frmaxss, fringe and the other calibration        *)
(* attributes as they were, so the derived methods read the gradient the   *)
(* fit used.                                                               *)
(***************************************************************************)
Frozen == CalibrationAttrs \cup {"fringe"}

C11_CalibrationFrozen ==
    [][\A i \in DOMAIN fall :
        hist[i].fit # "none" =>
            \A a \in Frozen :
                /\ Has(fall[i], a) <=> Has(fall'[i], a)
                /\ fall'[i][a] = fall[i][a]
    ]_vars

(***************************************************************************)
(* C12.  In every call of LST:                                             *)
(*   the solves start in the order unconstrained (A), gradient-corrected   *)
(*   (A_grad), reduced (A2), modulation-corrected (AA4);                   *)
(*   the first three are passed the same z, the one bound at line 132 of   *)
(*   this call from z1[frmin:frmax];                                       *)
(*   what the fourth is passed was computed from the solves 1 and 2 of     *)
(*   this call and from no other solve, and A4[:,2] and zgrad had been     *)
(*   assigned at every index of range(nfringe) when it started;            *)
(*   no value of g0, g0_Gr, z0, v0, ssres or xgrad4 was computed from a    *)
(*   reduced solve.                                                        *)
(***************************************************************************)
SolveOrder == <<"A", "A_grad", "A2", "AA4">>

C12_FlowOfLST ==
    LET o == flow.order
        c == flow.call
    IN  /\ Len(o) <= 4
        /\ \A k \in 1..Len(o) : o[k].solve = k /\ o[k].A = SolveOrder[k]
        /\ \A k \in 1..Len(o) :
               k <= 3 =>
                   /\ o[k].z = "z"
                   /\ o[k].zver = o[1].zver
                   /\ o[k].zver[1] = c
                   /\ Program[o[k].zver[2]].line = 132
                   /\ Program[o[k].zver[2]].r = {"z1", "frmin", "frmax"}
        /\ Len(o) = 4 =>
               /\ o[4].z = "zgrad4"
               /\ o[4].deps = {<<1, c>>, <<2, c>>}
               /\ o[4].filled["A4[:,2]"] = 0..(flow.n - 1)
               /\ o[4].filled["zgrad"] = 0..(flow.n - 1)
        /\ \A v \in {"g0", "g0_Gr", "z0", "v0", "ssres", "xgrad4"} :
               \A t \in flow.deps[v] : t[1] # 3

\* A second call of LST has run to its end, after a first one.
C12_Witness ==
    /\ flow.call = 2 /\ flow.at = 0 /\ flow.n = 2
    /\ Len(flow.order) = 4
    /\ flow.deps["g0"] = {<<1, 2>>}
    /\ flow.deps["g0_Gr"] = {<<2, 2>>}
    /\ flow.deps["xef"] = {<<3, 2>>}
    /\ flow.deps["xgrad4"] = {<<1, 2>>, <<2, 2>>, <<4, 2>>}

(***************************************************************************)
(* C13.  On a fitted instance on which the derived methods have run once,  *)
(* every further call of a derived method completes, leaves every derived  *)
(* value as the first call made it, and leaves g0, g0_Gr, v0, z0 and       *)
(* gradient unchanged.                                                     *)
(***************************************************************************)
C13_SecondCallSucceeds ==
    [][\A i \in DOMAIN fall :
        /\ ~pc'[i].failed
        /\ fall'[i] = fall[i]
    ]_vars

=============================================================================
